---- MODULE Spec2Model ----
(***************************************************************************)
(* A model of the two voice-agent pages of the frontend:                   *)
(*   Home                 (src/app/page.tsx)                               *)
(*   IrrigationAdvicePage (src/unnamed/part_000)                           *)
(* One page instance is modelled at a time (the variable page says which). *)
(* Every await of the source is a point where other handlers may run, so   *)
(* each async function is cut into one action per stretch between awaits.  *)
(*                                                                         *)
(* Environment (browser) assumptions, stated where they are used:          *)
(*  - a MediaRecorder started without a timeslice, as here, gathers its   *)
(*    data until stop() is called on it; stop() queues one task that fires *)
(*    dataavailable with the gathered blob (which may be empty) and then   *)
(*    stop (W3C MediaStream Recording, 2.3 "stop()");                      *)
(*  - getUserMedia, fetch and audio.play() settle at any later moment, in  *)
(*    any order, either way.                                               *)
(* An optional value (undefined / null in the source) is a sequence of     *)
(* length 0 or 1.                                                          *)
(***************************************************************************)
EXTENDS Integers, Sequences, FiniteSets, TLC

\* ------------------------------------------------------------------ bounds
\* startRecording invocations (each creates at most one MediaRecorder)
MaxStarts == 2
\* handleSubmit invocations that reach fetchAgent
MaxTextPosts == 1

\* ------------------------------------------------------- optional values
None == <<>>
Some(x) == <<x>>
IsSome(o) == Len(o) = 1
Get(o) == o[1]

\* ------------------------------------------------------------ state
VARIABLES
  page,             \* "Home" or "Irrigation": which component is mounted
  query,            \* useState("")      (IrrigationAdvicePage only)
  agentText,        \* useState("")
  loading,          \* useState(false)
  recording,        \* useState(false)
  weather,          \* useState<Weather | null>(null)   (Irrigation only)
  soil,             \* useState<Soil | null>(null)      (Irrigation only)
  mediaRecorderRef, \* useRef<MediaRecorder | null>: 0 is null, else a recorder
  audioChunksRef,   \* useRef<Blob[]>([]): the chunk buffer
  calls,            \* the startRecording invocations and their recorders
  posts,            \* the POSTs to /agent whose handling has not finished
  settled,          \* the POST whose handling the last step finished, if any
  alert,            \* the alert() the last step showed, if any
  idleStop,         \* the last step was stopRecording, called while recording
                    \* was false
  textPosts         \* how many POSTs handleSubmit has issued

vars == <<page, query, agentText, loading, recording, weather, soil,
          mediaRecorderRef, audioChunksRef, calls, posts, settled, alert,
          idleStop, textPosts>>

\* ------------------------------------------------------------ text
\* A string of the program is the sequence of its characters, so that the
\* regular expressions of fetchAgent can be computed on it.  DegreeSign
\* stands for the one character U+00B0.
DegreeSign == "deg"
Digits == {"0", "1", "2", "3", "4", "5", "6", "7", "8", "9"}
DigitValue(c) ==
  CASE c = "0" -> 0 [] c = "1" -> 1 [] c = "2" -> 2 [] c = "3" -> 3
    [] c = "4" -> 4 [] c = "5" -> 5 [] c = "6" -> 6 [] c = "7" -> 7
    [] c = "8" -> 8 [] c = "9" -> 9

\* Number(s) for a string of decimal digits
RECURSIVE Number(_)
Number(s) ==
  IF s = <<>> THEN 0
  ELSE 10 * Number(SubSeq(s, 1, Len(s) - 1)) + DigitValue(s[Len(s)])

\* String.prototype.trim, on the white space the inputs contain
RECURSIVE Trim(_)
Trim(s) ==
  IF s = <<>> THEN s
  ELSE IF Head(s) = " " THEN Trim(Tail(s))
  ELSE IF s[Len(s)] = " " THEN Trim(SubSeq(s, 1, Len(s) - 1))
  ELSE s

\* JavaScript truthiness of an optional string, number, boolean
TruthyText(o) == IsSome(o) /\ Get(o) # <<>>
TruthyNum(o) == IsSome(o) /\ Get(o) # 0
TruthyBool(o) == IsSome(o) /\ Get(o)
\* o || d
OrText(o, d) == IF TruthyText(o) THEN Get(o) ELSE d
OrNum(o, d) == IF TruthyNum(o) THEN Get(o) ELSE d

\* the literal lit occurs in s at position i
LitAt(s, i, lit) ==
  /\ i >= 1
  /\ i + Len(lit) - 1 <= Len(s)
  /\ \A k \in 1..Len(lit) : s[i + k - 1] = lit[k]

\* the end of the longest run of characters of cs that starts at i
\* (i - 1 when s[i] is not in cs)
RunEnd(s, i, cs) ==
  LET stops == {j \in i..(Len(s) + 1) : j = Len(s) + 1 \/ s[j] \notin cs}
  IN (CHOOSE j \in stops : \A k \in stops : j <= k) - 1

NoNewline(s) == \A k \in 1..Len(s) : s[k] # "\n"

LitUnknown == <<"U", "n", "k", "n", "o", "w", "n">>
LitNA == <<"N", "/", "A">>
LitMedium == <<"m", "e", "d", "i", "u", "m">>
LitWeatherIn == <<"W", "e", "a", "t", "h", "e", "r", " ", "i", "n", " ">>
LitIs == <<" ", "i", "s", " ">>
LitWithTemperature ==
  <<" ", "w", "i", "t", "h", " ", "t", "e", "m", "p", "e", "r", "a", "t",
    "u", "r", "e", " ">>
LitDegC == <<DegreeSign, "C">>
LitSoilMoisture ==
  <<"s", "o", "i", "l", " ", "m", "o", "i", "s", "t", "u", "r", "e", " ">>

\* message.match(/soil moisture (\d+)%/): None, or Some of capture group 1.
\* The match starts at the leftmost position where the whole pattern fits;
\* \d+ is greedy and "%" must follow the run of digits.
SoilMatch(msg) ==
  LET fits(i) ==
        /\ LitAt(msg, i, LitSoilMoisture)
        /\ LET d == i + Len(LitSoilMoisture)
               e == RunEnd(msg, d, Digits)
           IN e >= d /\ e + 1 <= Len(msg) /\ msg[e + 1] = "%"
      starts == {i \in 1..Len(msg) : fits(i)}
  IN IF starts = {} THEN None
     ELSE LET i == CHOOSE x \in starts : \A y \in starts : x <= y
              d == i + Len(LitSoilMoisture)
          IN Some(SubSeq(msg, d, RunEnd(msg, d, Digits)))

\* message.match(/Weather in (.*?) is (.*) with temperature ([0-9.]+)°C/):
\* None, or Some of the three capture groups.  i: start of the match
\* (leftmost), a: start of " is " (group 1 is lazy: the first a that lets
\* the rest match), b: start of " with temperature " (group 2 is greedy:
\* the last b that lets the rest match); "." matches no line terminator.
WeatherMatch(msg) ==
  LET numEnd(b) == RunEnd(msg, b + Len(LitWithTemperature), Digits \cup {"."})
      tail(b) ==
        /\ LitAt(msg, b, LitWithTemperature)
        /\ numEnd(b) >= b + Len(LitWithTemperature)
        /\ LitAt(msg, numEnd(b) + 1, LitDegC)
      bs(a) == {b \in (a + Len(LitIs))..Len(msg) :
                  tail(b) /\ NoNewline(SubSeq(msg, a + Len(LitIs), b - 1))}
      as(i) == {a \in (i + Len(LitWeatherIn))..Len(msg) :
                  /\ LitAt(msg, a, LitIs)
                  /\ NoNewline(SubSeq(msg, i + Len(LitWeatherIn), a - 1))
                  /\ bs(a) # {}}
      starts == {i \in 1..Len(msg) : LitAt(msg, i, LitWeatherIn) /\ as(i) # {}}
  IN IF starts = {} THEN None
     ELSE LET i == CHOOSE x \in starts : \A y \in starts : x <= y
              a == CHOOSE x \in as(i) : \A y \in as(i) : x <= y
              b == CHOOSE x \in bs(a) : \A y \in bs(a) : x >= y
          IN Some(<<SubSeq(msg, i + Len(LitWeatherIn), a - 1),
                    SubSeq(msg, a + Len(LitIs), b - 1),
                    SubSeq(msg, b + Len(LitWithTemperature), numEnd(b))>>)

\* a JavaScript value that is a number or a string (Weather.temp_c)
NumberValue(n) == [t |-> "number", n |-> n, s |-> <<>>]
StringValue(s) == [t |-> "string", n |-> 0, s |-> s]

\* NormalizeWeather with the text pattern tried before the weather object
NormalizeWeather_textFirst(data) ==
  IF TruthyText(data.message) /\ IsSome(WeatherMatch(Get(data.message)))
  THEN LET m == WeatherMatch(Get(data.message))
       IN Some([location |-> Get(m)[1],
                condition |-> Get(m)[2],
                temp_c |-> StringValue(Get(m)[3])])
  ELSE IF IsSome(data.weather)
  THEN Some([location |-> OrText(Get(data.weather).name, LitUnknown),
             condition |-> OrText(Get(data.weather).text, LitNA),
             temp_c |-> NumberValue(OrNum(Get(data.weather).temp_c, 0))])
  ELSE None

\* fetchAgent, "Weather": the value given to setWeather, None when it is
\* not called (the state keeps the null that fetchAgent set at its start)
NormalizeWeather(data) ==
  IF IsSome(data.weather)
  THEN Some([location |-> OrText(Get(data.weather).name, LitUnknown),
             condition |-> OrText(Get(data.weather).text, LitNA),
             temp_c |-> NumberValue(OrNum(Get(data.weather).temp_c, 0))])
  ELSE IF TruthyText(data.message)
  THEN LET m == WeatherMatch(Get(data.message))
       IN IF IsSome(m)
          THEN Some([location |-> Get(m)[1],
                     condition |-> Get(m)[2],
                     temp_c |-> StringValue(Get(m)[3])])
          ELSE None
  ELSE None

\* fetchAgent, "Soil": the value given to setSoil, None when it is not called
NormalizeSoil(data) ==
  IF IsSome(data.soil)
  THEN Some([moisture |-> OrNum(Get(data.soil).moisture, 0),
             ph |-> Some(OrNum(Get(data.soil).ph, 7)),
             nitrogen |-> Some(OrText(Get(data.soil).nitrogen, LitMedium)),
             phosphorus |-> Some(OrText(Get(data.soil).phosphorus, LitMedium)),
             potassium |-> Some(OrText(Get(data.soil).potassium, LitMedium))])
  ELSE IF TruthyText(data.message)
  THEN LET m == SoilMatch(Get(data.message))
       IN IF IsSome(m)
          THEN Some([moisture |-> Number(Get(m)), ph |-> None,
                     nitrogen |-> None, phosphorus |-> None,
                     potassium |-> None])
          ELSE None
  ELSE None

\* ------------------------------------------------------------ inputs
\* what the user may type into the text input of IrrigationAdvicePage:
\* nothing, only white space, a question
QueryValues == {<<>>, <<" ">>, <<"r", "i", "c", "e">>}

MsgPlain == <<"O", "K">>
MsgSoil == LitSoilMoisture \o <<"4", "2", "%">>
AudioPath == <<"/", "a">>
NextPath == <<"/", "n">>
\* data.weather, by its leaves location?.name, current?.condition?.text and
\* current?.temp_c; data.soil
RawWeather == [name |-> Some(<<"P", "u", "n", "e">>), text |-> None,
               temp_c |-> Some(30)]
RawSoil == [moisture |-> Some(55), ph |-> None, nitrogen |-> None,
            phosphorus |-> None, potassium |-> None]

\* a response of the backend: its HTTP status and the JSON body
Response(status, message, audio_url, redirect, redirect_url, w, s) ==
  [status |-> status, message |-> message, audio_url |-> audio_url,
   redirect |-> redirect, redirect_url |-> redirect_url,
   weather |-> w, soil |-> s]

ServerError == Response(500, None, None, None, None, None, None)

\* the responses the backend gives to Home: with and without audio, with
\* redirect true, false and absent, with redirect_url "/n", "" and absent
HomeResponses ==
  {ServerError}
  \cup {Response(200, Some(MsgPlain), a, r[1], r[2], None, None) :
          a \in {None, Some(AudioPath)},
          r \in {<<Some(TRUE), Some(NextPath)>>, <<Some(FALSE), Some(NextPath)>>,
                 <<Some(TRUE), Some(<<>>)>>, <<None, None>>}}

\* the responses the backend gives to IrrigationAdvicePage
IrrigationResponses ==
  {ServerError,
   Response(200, Some(MsgSoil), None, None, None, None, None),
   Response(200, Some(MsgPlain), Some(AudioPath), Some(TRUE), Some(NextPath),
            Some(RawWeather), Some(RawSoil))}

Responses == IF page = "Home" THEN HomeResponses ELSE IrrigationResponses

\* messages the weather pattern matches, alone and followed by the soil one
MsgWeather ==
  LitWeatherIn \o <<"G", "o", "a">> \o LitIs \o <<"h", "o", "t">>
    \o LitWithTemperature \o <<"3", "1", ".", "5">> \o LitDegC
MsgBoth == MsgWeather \o <<",", " ">> \o MsgSoil

\* data.weather: absent, or an object each of whose leaves is absent, falsy
\* ("" or 0) or a value
Weathers ==
  {None}
  \cup {Some([name |-> n, text |-> t, temp_c |-> c]) :
          n \in {None, Some(<<>>), Some(<<"P", "u", "n", "e">>)},
          t \in {None, Some(<<>>), Some(<<"R", "a", "i", "n">>)},
          c \in {None, Some(30)}}

\* data.soil: absent, an object with moisture alone, a complete object
Soils ==
  {None, Some(RawSoil),
   Some([moisture |-> Some(10), ph |-> Some(6), nitrogen |-> Some(<<"l", "o">>),
         phosphorus |-> Some(<<"h", "i">>), potassium |-> Some(<<"l", "o">>)])}

\* the bodies fetchAgent normalizes: every combination of message, weather
\* and soil, without audio_url
NormalizeResponses ==
  {ServerError}
  \cup {Response(200, m, None, None, None, w, so) :
          m \in {None, Some(MsgPlain), Some(MsgWeather), Some(MsgBoth)},
          w \in Weathers, so \in Soils}

\* res.ok
Ok(r) == r.status \in 200..299

\* ------------------------------------------------------------ operations
Init ==
  /\ page \in {"Home", "Irrigation"}
  /\ query = <<>>
  /\ agentText = <<>>
  /\ loading = FALSE
  /\ recording = FALSE
  /\ weather = None
  /\ soil = None
  /\ mediaRecorderRef = 0
  /\ audioChunksRef = <<>>
  /\ calls = <<>>
  /\ posts = <<>>
  /\ settled = None
  /\ alert = None
  /\ idleStop = FALSE
  /\ textPosts = 0

\* what the page displays of the last response
Display == [agentText |-> agentText, weather |-> weather, soil |-> soil]

\* the step shows no alert and finishes the handling of no POST
Quiet == alert' = None /\ settled' = None /\ idleStop' = FALSE

\* the record of a POST to /agent whose fetch has just been issued.
\* src: the recorder whose stop event built it, 0 for handleSubmit;
\* audio / question: the parts of the multipart body; own: the non-empty
\* chunks the recorder src itself delivered; before: the
\* display when the submission was started (before its handler changed it)
NewPost(src, audio, question, own) ==
  [src |-> src, audio |-> audio, question |-> question, own |-> own,
   st |-> "fetch", data |-> None, err |-> None, pushes |-> <<>>,
   play |-> "none", ended |-> FALSE, before |-> Display]

\* seq without its p-th element
Remove(seq, p) == SubSeq(seq, 1, p - 1) \o SubSeq(seq, p + 1, Len(seq))

\* the handling of POST p has finished, as the record rec
Settle(p, rec) ==
  /\ posts' = Remove(posts, p)
  /\ settled' = Some(rec)

\* an onChange of the text input (IrrigationAdvicePage)
setQuery(q) ==
  /\ page = "Irrigation"
  /\ q # query
  /\ query' = q
  /\ Quiet
  /\ UNCHANGED <<page, agentText, loading, recording, weather, soil,
                 mediaRecorderRef, audioChunksRef, calls, posts, textPosts>>

\* A click on the record button: it is rendered as "Start Talking" while
\* recording is false and is disabled while loading.  startRecording runs
\* up to its await of getUserMedia; the closure keeps the query of the
\* render it was created in.
startRecording ==
  /\ ~recording
  /\ ~loading
  /\ Len(calls) < MaxStarts
  /\ calls' = Append(calls, [st |-> "getUserMedia", query |-> query])
  /\ Quiet
  /\ UNCHANGED <<page, query, agentText, loading, recording, weather, soil,
                 mediaRecorderRef, audioChunksRef, posts, textPosts>>

\* getUserMedia resolved: the rest of the try block of startRecording
startRecording_granted(i) ==
  /\ calls[i].st = "getUserMedia"
  /\ audioChunksRef' = <<>>
  /\ mediaRecorderRef' = i
  /\ calls' = [calls EXCEPT ![i].st = "recording"]
  /\ recording' = TRUE
  /\ Quiet
  /\ UNCHANGED <<page, query, agentText, loading, weather, soil, posts,
                 textPosts>>

AlertMicrophone == "Microphone access is required to use voice features."

\* startRecording_refused entered after mediaRecorderRef.current = recorder
startRecording_refused_storing(i) ==
  /\ calls[i].st = "getUserMedia"
  /\ calls' = [calls EXCEPT ![i].st = "refused", ![i].query = <<>>]
  /\ mediaRecorderRef' = i
  /\ alert' = Some(AlertMicrophone)
  /\ idleStop' = FALSE
  /\ settled' = None
  /\ UNCHANGED <<page, query, agentText, loading, recording, weather, soil,
                 audioChunksRef, posts, textPosts>>

\* getUserMedia rejected, or new MediaRecorder threw: the catch block
startRecording_refused(i) ==
  /\ calls[i].st = "getUserMedia"
  /\ calls' = [calls EXCEPT ![i].st = "refused", ![i].query = <<>>]
  /\ alert' = Some(AlertMicrophone)
  /\ idleStop' = FALSE
  /\ settled' = None
  /\ UNCHANGED <<page, query, agentText, loading, recording, weather, soil,
                 mediaRecorderRef, audioChunksRef, posts, textPosts>>

\* recorder.ondataavailable with the blob e: the chunk buffer after it
ondataavailable(chunks, e) == IF e.size > 0 THEN Append(chunks, e) ELSE chunks

\* stopRecording with setRecording(!recording) for setRecording(false)
stopRecording_toggling ==
  /\ \/ /\ mediaRecorderRef = 0
        /\ UNCHANGED <<calls, recording>>
     \/ /\ mediaRecorderRef # 0
        /\ calls[mediaRecorderRef].st = "recording"
        /\ calls' = [calls EXCEPT ![mediaRecorderRef].st = "stopping"]
        /\ recording' = ~recording
     \/ /\ mediaRecorderRef # 0
        /\ calls[mediaRecorderRef].st # "recording"
        /\ UNCHANGED calls
        /\ \/ recording' = ~recording
           \/ UNCHANGED recording
  /\ alert' = None
  /\ settled' = None
  /\ idleStop' = ~recording
  /\ UNCHANGED <<page, query, agentText, loading, weather, soil,
                 mediaRecorderRef, audioChunksRef, posts, textPosts>>

\* stopRecording, in any state it may be called in (the Stop button is
\* rendered while recording is true; a call made while it is false is
\* modelled too).  MediaRecorder.stop() on a recorder that records makes it
\* inactive and queues its stop event; on an inactive recorder it does
\* nothing or throws InvalidStateError (older browsers), and then
\* setRecording(false) is not reached.
stopRecording ==
  /\ \/ /\ mediaRecorderRef = 0
        /\ UNCHANGED <<calls, recording>>
     \/ /\ mediaRecorderRef # 0
        /\ calls[mediaRecorderRef].st = "recording"
        /\ calls' = [calls EXCEPT ![mediaRecorderRef].st = "stopping"]
        /\ recording' = FALSE
     \/ /\ mediaRecorderRef # 0
        /\ calls[mediaRecorderRef].st # "recording"
        /\ UNCHANGED calls
        /\ \/ recording' = FALSE
           \/ UNCHANGED recording
  /\ alert' = None
  /\ settled' = None
  /\ idleStop' = ~recording
  /\ UNCHANGED <<page, query, agentText, loading, weather, soil,
                 mediaRecorderRef, audioChunksRef, posts, textPosts>>

\* sendToBackend (Home) up to its await of fetch; chunks is the chunk
\* buffer when it runs
sendToBackend(i, chunks, own) ==
  /\ loading' = TRUE
  /\ posts' = Append(posts, NewPost(i, Some(chunks), None, own))
  /\ UNCHANGED <<agentText, weather, soil>>

\* fetchAgent(formData) (IrrigationAdvicePage) up to its await of fetch
fetchAgent(src, audio, question, own) ==
  /\ loading' = TRUE
  /\ agentText' = <<>>
  /\ weather' = None
  /\ soil' = None
  /\ posts' = Append(posts, NewPost(src, audio, question, own))

\* The task queued by stop() on recorder i: it fires dataavailable with the
\* gathered blob, of the given size, and then stop.  recorder.onstop is
\* sendToBackend in Home; in IrrigationAdvicePage it builds the FormData
\* with the query of its closure and calls fetchAgent.
onstop(i, size) ==
  /\ calls[i].st = "stopping"
  /\ calls' = [calls EXCEPT ![i].st = "stopped", ![i].query = <<>>]
  /\ LET e == [rec |-> i, size |-> size]
         own == ondataavailable(<<>>, e)
     IN /\ audioChunksRef' = ondataavailable(audioChunksRef, e)
        /\ IF page = "Home"
           THEN sendToBackend(i, audioChunksRef', own)
           ELSE fetchAgent(i, Some(audioChunksRef'),
                           IF Trim(calls[i].query) # <<>>
                           THEN Some(calls[i].query) ELSE None,
                           own)
  /\ Quiet
  /\ UNCHANGED <<page, query, recording, mediaRecorderRef, textPosts>>

AlertEnterQuestion == "Please enter your question or location"

\* handleSubmit: a click on Send (IrrigationAdvicePage)
handleSubmit ==
  /\ page = "Irrigation"
  /\ IF Trim(query) = <<>>
     THEN /\ alert' = Some(AlertEnterQuestion)
          /\ UNCHANGED <<agentText, loading, weather, soil, posts, textPosts>>
     ELSE /\ textPosts < MaxTextPosts
          /\ textPosts' = textPosts + 1
          /\ fetchAgent(0, None, Some(query), <<>>)
          /\ alert' = None
  /\ settled' = None
  /\ idleStop' = FALSE
  /\ UNCHANGED <<page, query, recording, mediaRecorderRef, audioChunksRef,
                 calls>>

\* data.redirect && data.redirect_url
Redirects(data) == TruthyBool(data.redirect) /\ TruthyText(data.redirect_url)

\* if (data.redirect && data.redirect_url) router.push(data.redirect_url):
\* the router.push calls made for a response, after one more such statement
Pushed(pushes, data) ==
  IF Redirects(data) THEN Append(pushes, Get(data.redirect_url)) ELSE pushes

AlertFailed ==
  IF page = "Home" THEN "Failed to process audio. Please try again."
  ELSE "Failed to fetch advice. Try again."

\* the multipart body is of no use once fetch has settled
Sent(post) == [post EXCEPT !.audio = None, !.question = None, !.own = <<>>]

\* the catch and finally blocks of sendToBackend / fetchAgent, entered
\* with the error err
Failed(p, err) ==
  /\ Settle(p, [Sent(posts[p]) EXCEPT !.st = "failed", !.err = Some(err)])
  /\ alert' = Some(AlertFailed)
  /\ idleStop' = FALSE
  /\ loading' = FALSE
  /\ UNCHANGED <<agentText, weather, soil>>

\* fetch rejected (a transport failure), or res.json() rejected
fetch_rejected(p) ==
  /\ posts[p].st = "fetch"
  /\ Failed(p, [name |-> "TypeError", status |-> 0])
  /\ UNCHANGED <<page, query, recording, mediaRecorderRef, audioChunksRef,
                 calls, textPosts>>

\* what follows the setters in both pages: with an audio_url, new Audio and
\* await audio.play(); without, the redirect of Home (pushes) and finally
AfterData(p, data, pushes) ==
  IF TruthyText(data.audio_url)
  THEN /\ posts' = [posts EXCEPT ![p] = [Sent(@) EXCEPT !.st = "play",
                                                        !.data = Some(data),
                                                        !.play = "pending"]]
       /\ settled' = None
       /\ UNCHANGED loading
  ELSE /\ Settle(p, [Sent(posts[p]) EXCEPT !.st = "done", !.data = Some(data),
                                           !.pushes = pushes])
       /\ loading' = FALSE

\* sendToBackend_data without the else branch of if (data.audio_url)
sendToBackend_data_noElse(p, data) ==
  /\ agentText' = OrText(data.message, <<>>)
  /\ AfterData(p, data, posts[p].pushes)
  /\ alert' = None
  /\ idleStop' = FALSE
  /\ UNCHANGED <<weather, soil>>

\* sendToBackend (Home) from the response to await audio.play(), or to its
\* end when there is no audio_url
sendToBackend_data(p, data) ==
  /\ agentText' = OrText(data.message, <<>>)
  /\ AfterData(p, data, Pushed(posts[p].pushes, data))
  /\ alert' = None
  /\ idleStop' = FALSE
  /\ UNCHANGED <<weather, soil>>

\* fetchAgent (IrrigationAdvicePage) from the response to await
\* audio.play(), or to its end when there is no audio_url
fetchAgent_data(p, data) ==
  /\ agentText' = OrText(data.message, <<>>)
  /\ weather' = IF IsSome(NormalizeWeather(data))
                THEN NormalizeWeather(data) ELSE weather
  /\ soil' = IF IsSome(NormalizeSoil(data)) THEN NormalizeSoil(data) ELSE soil
  /\ AfterData(p, data, posts[p].pushes)
  /\ alert' = None
  /\ idleStop' = FALSE

\* fetch resolved with the response r (and res.json() with its body)
fetch_resolved(p, r) ==
  /\ posts[p].st = "fetch"
  /\ IF ~Ok(r)
     THEN Failed(p, [name |-> "Server error", status |-> r.status])
     ELSE IF page = "Home"
     THEN sendToBackend_data(p, r)
     ELSE fetchAgent_data(p, r)
  /\ UNCHANGED <<page, query, recording, mediaRecorderRef, audioChunksRef,
                 calls, textPosts>>

\* play_resolved with the redirect done at once instead of in audio.onended
play_resolved_redirecting(p) ==
  /\ posts[p].st = "play"
  /\ IF page = "Home"
     THEN /\ posts' = [posts EXCEPT ![p].play = "resolved",
                                    ![p].st = "playing",
                                    ![p].pushes = Pushed(@, Get(posts[p].data))]
          /\ settled' = None
     ELSE Settle(p, [posts[p] EXCEPT !.play = "resolved", !.st = "done"])
  /\ loading' = FALSE
  /\ alert' = None
  /\ idleStop' = FALSE
  /\ UNCHANGED <<page, query, agentText, recording, weather, soil,
                 mediaRecorderRef, audioChunksRef, calls, textPosts>>

\* audio.play() resolved: playback has started.  Home sets audio.onended
\* and runs finally; IrrigationAdvicePage runs finally
play_resolved(p) ==
  /\ posts[p].st = "play"
  /\ IF page = "Home"
     THEN /\ posts' = [posts EXCEPT ![p].play = "resolved",
                                    ![p].st = "playing"]
          /\ settled' = None
     ELSE Settle(p, [posts[p] EXCEPT !.play = "resolved", !.st = "done"])
  /\ loading' = FALSE
  /\ alert' = None
  /\ idleStop' = FALSE
  /\ UNCHANGED <<page, query, agentText, recording, weather, soil,
                 mediaRecorderRef, audioChunksRef, calls, textPosts>>

\* play_rejected with an inner catch that only logs
play_rejected_logging(p) ==
  /\ posts[p].st = "play"
  /\ Settle(p, [posts[p] EXCEPT !.play = "rejected", !.st = "done"])
  /\ loading' = FALSE
  /\ alert' = None
  /\ idleStop' = FALSE
  /\ UNCHANGED <<page, query, agentText, recording, weather, soil,
                 mediaRecorderRef, audioChunksRef, calls, textPosts>>

\* audio.play() rejected: the inner catch, then finally
play_rejected(p) ==
  /\ posts[p].st = "play"
  /\ Settle(p, [posts[p] EXCEPT
                  !.play = "rejected", !.st = "done",
                  !.pushes = IF page = "Home"
                             THEN Pushed(@, Get(posts[p].data)) ELSE @])
  /\ loading' = FALSE
  /\ alert' = None
  /\ idleStop' = FALSE
  /\ UNCHANGED <<page, query, agentText, recording, weather, soil,
                 mediaRecorderRef, audioChunksRef, calls, textPosts>>

\* audio.onended (Home): the audio has finished playing
onended(p) ==
  /\ posts[p].st = "playing"
  /\ Settle(p, [posts[p] EXCEPT !.ended = TRUE, !.st = "done",
                                !.pushes = Pushed(@, Get(posts[p].data))])
  /\ alert' = None
  /\ idleStop' = FALSE
  /\ UNCHANGED <<page, query, agentText, loading, recording, weather, soil,
                 mediaRecorderRef, audioChunksRef, calls, textPosts>>

\* the record button, the recorders, the backend and the audio element
Voice ==
  \/ startRecording
  \/ \E i \in 1..Len(calls) : startRecording_granted(i)
  \/ \E i \in 1..Len(calls) : startRecording_refused(i)
  \/ stopRecording
  \/ \E i \in 1..Len(calls) : \E size \in {0, 1} : onstop(i, size)
  \/ \E p \in 1..Len(posts) : fetch_rejected(p)
  \/ \E p \in 1..Len(posts) : \E r \in Responses : fetch_resolved(p, r)
  \/ \E p \in 1..Len(posts) : play_resolved(p)
  \/ \E p \in 1..Len(posts) : play_rejected(p)

\* audio.onended is set by Home only
VoiceHome == \E p \in 1..Len(posts) : onended(p)

\* the text input and the Send button of IrrigationAdvicePage
Text ==
  \/ \E q \in QueryValues : setQuery(q)
  \/ handleSubmit

Next == Voice \/ VoiceHome \/ Text

\* either page, with everything its user and its environment can do
Spec == Init /\ [][Next]_vars

\* either page, its text input and Send button left alone
NextVoice == Voice \/ VoiceHome
SpecVoice == Init /\ [][NextVoice]_vars

\* Home alone
InitHome == Init /\ page = "Home"
SpecHome == InitHome /\ [][NextVoice]_vars

\* IrrigationAdvicePage, its text input and Send button, the backend
\* answering with any of NormalizeResponses
InitIrrigation == Init /\ page = "Irrigation"
NextNormalize ==
  \/ Text
  \/ \E p \in 1..Len(posts) : fetch_rejected(p)
  \/ \E p \in 1..Len(posts) : \E r \in NormalizeResponses : fetch_resolved(p, r)
SpecNormalize == InitIrrigation /\ [][NextNormalize]_vars

\* ------------------------------------------------------------ claims
\* the posts in flight, and the one the last step finished
Live == {posts[p] : p \in 1..Len(posts)}
Handled == Live \cup (IF IsSome(settled) THEN {Get(settled)} ELSE {})

\* the MediaRecorders that have been started and not stopped
Recording == {i \in 1..Len(calls) : calls[i].st = "recording"}

\* C1: at most one MediaRecorder has been started and not yet stopped, under
\* any interleaving of Start clicks, permission resolutions, Stop clicks and
\* stop events.
C1_AtMostOneRecorder == Cardinality(Recording) <= 1

\* C2: the audio blob built when a recorder's stop event fires is the
\* concatenation, in arrival order, of the non-empty chunks that recorder
\* delivered, whatever else is interleaved.
C2_BlobIsTheRecordersChunks ==
  \A post \in Live :
    (post.st = "fetch" /\ post.src # 0) => Get(post.audio) = post.own

\* C3: no POST to /agent is in flight while a MediaRecorder is recording.
C3_NoPostWhileRecording ==
  ~(Recording # {} /\ \E post \in Live : post.st = "fetch")

\* C4 (Home): when the response carries audio_url and audio.play() resolves,
\* router.push is not invoked before the audio's ended event, only in
\* reaction to it.
C4_PushOnlyOnEnded ==
  \A post \in Handled :
    (post.play = "resolved" /\ post.pushes # <<>>) => post.ended

C4_Witness ==
  \E post \in Handled :
    post.play = "resolved" /\ post.ended /\ post.pushes = <<NextPath>>

\* C5 (Home): when the response carries audio_url, a truthy redirect and a
\* non-empty redirect_url and audio.play() rejects, router.push(redirect_url)
\* is invoked exactly once for the response and no alert is shown.
C5_RejectedPlayPushesOnce ==
  \A post \in Handled :
    (post.play = "rejected" /\ Redirects(Get(post.data)))
      => /\ post.pushes = <<Get(Get(post.data).redirect_url)>>
         /\ alert = None

C5_Witness ==
  \E post \in Handled :
    /\ post.play = "rejected"
    /\ Redirects(Get(post.data))
    /\ post.pushes = <<NextPath>>
    /\ alert = None

\* C6 (Home.sendToBackend): a successful response without audio_url, with a
\* truthy redirect and a non-empty redirect_url, is navigated to by the
\* handling of the response itself, no playback event awaited; a response
\* whose redirect is falsy or whose redirect_url is empty is never
\* navigated to.
C6_RedirectWithoutAudio ==
  \A post \in Handled :
    IsSome(post.data) =>
      LET data == Get(post.data)
      IN /\ (~TruthyText(data.audio_url) /\ Redirects(data))
              => /\ post.pushes = <<Get(data.redirect_url)>>
                 /\ post.play = "none"
                 /\ ~post.ended
         /\ ~Redirects(data) => post.pushes = <<>>

C6_Witness ==
  \E post \in Handled :
    /\ IsSome(post.data)
    /\ ~TruthyText(Get(post.data).audio_url)
    /\ Redirects(Get(post.data))
    /\ post.play = "none"
    /\ post.pushes = <<NextPath>>

\* C7: when the POST returns a non-2xx status, an error carrying the status
\* reaches the failure handler and the display (agentText, weather, soil) is
\* what it was immediately before the submission was started.
C7_FailureLeavesDisplay ==
  \A post \in Handled :
    (post.st = "failed" /\ Get(post.err).name = "Server error")
      => /\ Get(post.err).status = 500
         /\ alert = Some(AlertFailed)
         /\ Display = post.before

\* C8: every failed submission is followed, with no further user action and
\* no automatic re-POST, by the controller being Idle: recording and loading
\* are false.  (No step but stopRecording, a user action, makes recording
\* false, so the controller is Idle after the failure only if it is when
\* the failure has been handled.)
C8_FailureReturnsToIdle ==
  \A post \in Handled : post.st = "failed" => (~recording /\ ~loading)

\* C9: startRecording, running while a recording is active, leaves the
\* recording flag, mediaRecorderRef and audioChunksRef as they are.
C9_StartWhileRecordingIsNoOp ==
  [][(Recording # {}
      /\ (startRecording \/ \E i \in 1..Len(calls) : startRecording_granted(i)))
     => UNCHANGED <<recording, mediaRecorderRef, audioChunksRef>>]_vars

\* C10: stopRecording, invoked when no recording is active (recording is
\* false: initially, or mediaRecorderRef holds a stopped recorder), changes
\* no state of the controller and issues no POST.
C10_StopWhileIdleIsNoOp ==
  [][(~recording /\ stopRecording)
     => UNCHANGED <<recording, loading, agentText, weather, soil, query,
                    mediaRecorderRef, audioChunksRef, calls, posts>>]_vars

C10_Witness ==
  /\ idleStop
  /\ mediaRecorderRef # 0
  /\ calls[mediaRecorderRef].st = "stopped"
  /\ ~recording

\* C11: when microphone access is refused in startRecording, the failure is
\* reported to the user (the microphone alert) and the step leaves recording
\* as it was (false stays false), stores no recorder, leaves the chunk buffer
\* unchanged and issues no POST; the refused call has no recorder that
\* records.
C11_RefusedStaysIdle ==
  [][\A i \in 1..Len(calls) :
       startRecording_refused(i)
         => /\ alert' = Some(AlertMicrophone)
            /\ UNCHANGED <<recording, mediaRecorderRef, audioChunksRef, posts,
                           loading>>
            /\ i \notin Recording']_vars

C11_Witness ==
  /\ alert = Some(AlertMicrophone)
  /\ ~recording
  /\ mediaRecorderRef = 0
  /\ \E i \in 1..Len(calls) : calls[i].st = "refused"

\* C12: the audio blob submitted for a recording contains only chunks that
\* recording's own MediaRecorder produced, never a chunk of an earlier or a
\* different recorder.
C12_BlobOwnedByRecorder ==
  \A post \in Live :
    (post.st = "fetch" /\ post.src # 0)
      => \A k \in 1..Len(Get(post.audio)) : Get(post.audio)[k].rec = post.src

\* C13: every request posted to /agent, from a recorder's stop event or from
\* the Send button, carries the part named audio.
C13_EveryPostHasAudio ==
  \A post \in Live : post.st = "fetch" => IsSome(post.audio)

\* C14 (IrrigationAdvicePage): the voice request built when a recorder's stop
\* event fires has the part question exactly when the text query, as it
\* stands at that moment, is non-empty, and the part's value is that query.
C14_QuestionIsQueryAtStop ==
  [][\A i \in 1..Len(calls) : \A size \in {0, 1} :
       (page = "Irrigation" /\ onstop(i, size))
         => posts'[Len(posts')].question
              = (IF Trim(query) # <<>> THEN Some(query) ELSE None)]_vars

\* C15 (IrrigationAdvicePage): for a response with no soil object whose
\* message matches "soil moisture <digits>%", the Soil given to setSoil has
\* moisture equal to the captured digits and ph = 7, nitrogen = phosphorus =
\* potassium = "medium".
C15_FallbackSoilHasDefaults ==
  \A post \in Handled :
    (/\ page = "Irrigation"
     /\ IsSome(post.data)
     /\ ~IsSome(Get(post.data).soil)
     /\ TruthyText(Get(post.data).message)
     /\ IsSome(SoilMatch(Get(Get(post.data).message))))
      => NormalizeSoil(Get(post.data))
           = Some([moisture |->
                     Number(Get(SoilMatch(Get(Get(post.data).message)))),
                   ph |-> Some(7),
                   nitrogen |-> Some(LitMedium),
                   phosphorus |-> Some(LitMedium),
                   potassium |-> Some(LitMedium)])

\* C16 (IrrigationAdvicePage): for every response with a weather object,
\* each field of the Weather given to setWeather is the value the response
\* provided for it, falsy values ("" and 0) included, and is the default
\* ("Unknown", "N/A", 0) only when that subfield is absent.
C16_WeatherFieldsAsProvided ==
  \A post \in Handled :
    (page = "Irrigation" /\ IsSome(post.data) /\ IsSome(Get(post.data).weather))
      => LET w == Get(Get(post.data).weather)
         IN NormalizeWeather(Get(post.data))
              = Some([location |-> IF IsSome(w.name) THEN Get(w.name)
                                   ELSE LitUnknown,
                      condition |-> IF IsSome(w.text) THEN Get(w.text)
                                    ELSE LitNA,
                      temp_c |-> NumberValue(IF IsSome(w.temp_c)
                                             THEN Get(w.temp_c) ELSE 0)])

\* C17 (IrrigationAdvicePage): when the response has a weather (resp. soil)
\* object, the step that handles the response leaves the displayed Weather
\* (resp. Soil) at a value computed from that object alone: the value the
\* same response would give without its message, also when the message
\* matches the text pattern.
C17_StructuredWins ==
  (/\ page = "Irrigation"
   /\ IsSome(settled)
   /\ Get(settled).st = "done"
   /\ Get(settled).play = "none")
    => LET data == Get(Get(settled).data)
           bare == [data EXCEPT !.message = None]
       IN /\ IsSome(data.weather) => weather = NormalizeWeather(bare)
          /\ IsSome(data.soil) => soil = NormalizeSoil(bare)

C17_Witness ==
  /\ IsSome(settled)
  /\ IsSome(Get(settled).data)
  /\ LET data == Get(Get(settled).data)
     IN /\ data.message = Some(MsgBoth)
        /\ IsSome(data.weather)
        /\ IsSome(data.soil)
        /\ IsSome(weather)
        /\ Get(weather).location = <<"P", "u", "n", "e">>
        /\ soil = NormalizeSoil([data EXCEPT !.message = None])

\* C18 (IrrigationAdvicePage): the displayed message, weather and soil are
\* all empty or derive from one and the same response of the backend.
C18_DisplayFromOneResponse ==
  page = "Irrigation"
    => \/ Display = [agentText |-> <<>>, weather |-> None, soil |-> None]
       \/ \E r \in IrrigationResponses :
            /\ Ok(r)
            /\ Display = [agentText |-> OrText(r.message, <<>>),
                          weather |-> NormalizeWeather(r),
                          soil |-> NormalizeSoil(r)]

\* C19: loading is true in every state in which a POST to /agent is still in
\* flight.
C19_LoadingWhilePostInFlight ==
  (\E post \in Live : post.st = "fetch") => loading

====
